---- MODULE Spec2Model ----
(***************************************************************************)
(* WiredTigerSnapshotManager (wiredtiger_snapshot_manager.cpp).            *)
(*                                                                         *)
(* The manager's fields (_committedSnapshot, _oldestKeptTimestamp,         *)
(* _session, _mutex), the WiredTiger engine it drives (named snapshots,    *)
(* the connection's oldest timestamp, the callers' sessions) and a set of  *)
(* threads calling its methods.  Every method is split at the points where *)
(* another thread can observe it: the acquisition of _mutex, each          *)
(* statement of the critical section that writes a field or calls the      *)
(* engine, and the return that releases the lock_guard.                    *)
(***************************************************************************)
EXTENDS Integers, Sequences, FiniteSets, TLC

\* ------------------------------------------------------------- bounds
MaxName == 1
MaxTs == 1

\* the threads calling into the manager; _mutex serialises every critical
\* section, so two callers show every interleaving of one section with another
Threads == {1, 2}
Names == 0..MaxName
Timestamps == 0..MaxTs

\* ------------------------------------------------------------- values
\* boost::none of boost::optional<SnapshotName>
None == -1
\* no thread owns _mutex
NoThread == 0
\* return codes of the engine: 0 is success, anything else an error
WT_OK == 0
WT_ERROR == 22
EngineRC == {WT_OK, WT_ERROR}
\* the value of a local that is not live
Nil == -2
\* ErrorCodes::ReadConcernMajorityNotAvailableYet
ReadConcernMajorityNotAvailableYet == 134
\* what a call hands back: kind "optional" (boost::optional<SnapshotName>, None
\* when empty), "SnapshotName", "Status" (0 is Status::OK()) or "throw" (the
\* error code of the exception)
Result(kind, val) == [kind |-> kind, val |-> val]
\* nothing handed back (yet)
NoResult == Result("void", 0)
\* no transaction begun on the caller's session by the running call
NoTxn == [kind |-> "none", at |-> 0]

VARIABLES
    committedSnapshot,      \* _committedSnapshot: None or a SnapshotName
    oldestKeptTimestamp,    \* _oldestKeptTimestamp
    session,                \* _session: "open" or "null" (nullptr)
    mutex,                  \* owner of _mutex, NoThread when free
    pc,                     \* position of each thread
    name,                   \* argument `name` of the running call
    ts,                     \* argument `ts` of the running call
    allCommittedTimestamp,  \* local of beginTransactionOnOplog
    ret,                    \* value the running call returns or throws
    calls,                  \* engine calls issued by the running call
    txn,                    \* transaction the running call began on the caller's WT_SESSION
    pinned,                 \* engine: the named snapshots
    engineOldest,           \* engine: the connection's oldest_timestamp
    oldestPushed,           \* engine: the largest oldest_timestamp ever set, None if none
    closeCount,             \* engine: closes of the manager's session
    lastAccepted,           \* arguments of the last accepted setCommittedSnapshot
    returnedSnapshot,       \* largest id beginTransactionOnCommittedSnapshot returned
                            \* since the last dropAllSnapshots, None if none
    fatal                   \* "none", or why the process aborted

coord == <<committedSnapshot, oldestKeptTimestamp, session>>
locals == <<name, ts, allCommittedTimestamp, ret, calls, txn>>
ghost == <<lastAccepted, returnedSnapshot>>
engine == <<pinned, engineOldest, oldestPushed, closeCount>>
vars == <<committedSnapshot, oldestKeptTimestamp, session, mutex, pc, name, ts,
          allCommittedTimestamp, ret, calls, txn, pinned, engineOldest,
          oldestPushed, closeCount, lastAccepted, returnedSnapshot, fatal>>

\* ------------------------------------------------------------- helpers
Max(a, b) == IF a >= b THEN a ELSE b

\* %llx / operator<<(u64): the digits of n in the given base, most significant first
RECURSIVE Digits(_, _)
Digits(n, base) ==
    IF n < base THEN <<n>> ELSE Append(Digits(n \div base, base), n % base)

\* the engine's parse of a number in a configuration string
RECURSIVE Parse(_, _)
Parse(digits, base) ==
    IF digits = <<>> THEN 0
    ELSE Parse(SubSeq(digits, 1, Len(digits) - 1), base) * base + digits[Len(digits)]

\* ---------------------------------------------- unsigned long long
\* a 64-bit unsigned value as four 16-bit limbs, most significant first
LimbBase == 65536
U64Limbs == 4
\* "(8 * 2) /* 16 hexadecimal digits */": the hex digits of the largest value
MaxHexDigits == 16
U64 == [1..U64Limbs -> 0..(LimbBase - 1)]

\* a < b on 64-bit unsigned values
RECURSIVE LessU64(_, _)
LessU64(a, b) ==
    IF a = <<>> THEN FALSE
    ELSE IF a[1] # b[1] THEN a[1] < b[1]
    ELSE LessU64(Tail(a), Tail(b))

\* std::max<std::uint64_t>(a, b)
MaxU64(a, b) == IF LessU64(a, b) THEN b ELSE a

\* the four hex digits of a limb that follows a non-zero limb
PaddedLimb(n) ==
    LET d == Digits(n, 16)
    IN [i \in 1..(4 - Len(d)) |-> 0] \o d

\* all the limbs behind the leading one, digit for digit
RECURSIVE PaddedLimbs(_)
PaddedLimbs(v) ==
    IF v = <<>> THEN <<>> ELSE PaddedLimb(v[1]) \o PaddedLimbs(Tail(v))

\* %llx: the hex digits of a 64-bit value, no leading zeros, "0" for zero
RECURSIVE HexU64(_)
HexU64(v) ==
    IF Len(v) = 1 THEN Digits(v[1], 16)
    ELSE IF v[1] = 0 THEN HexU64(Tail(v))
    ELSE Digits(v[1], 16) \o PaddedLimbs(Tail(v))

\* variant: the trailing null counted in the length
SnprintfWithNull(keyLen, digits) == keyLen + Len(digits) + 1

\* the value std::snprintf returns: the characters of "<key>=<digits>", the
\* trailing null not counted
Snprintf(keyLen, digits) == keyLen + Len(digits)

\* a configuration string "key=<digits>"
Config(key, n, base) == [key |-> key, digits |-> Digits(n, base)]
\* an engine call: the handle it goes through ("conn" for _conn, "opCtx" for the
\* caller's session, "session" for _session, "nullptr" for _session when it is
\* null), the method, the configuration string and the return code (Nil when
\* the call never came back)
Call(handle, fn, config, rc) ==
    [handle |-> handle, fn |-> fn, config |-> config, rc |-> rc]

\* variant: the lock taken without waiting for its owner
LockGuardNoWait(t) == mutex' = t

\* stdx::lock_guard<stdx::mutex> lock(_mutex): blocks until the mutex is free
LockGuard(t) ==
    /\ mutex = NoThread
    /\ mutex' = t

\* the process is running (no invariant has aborted it)
Running == fatal = "none"

Init ==
    /\ committedSnapshot = None
    /\ oldestKeptTimestamp = 0
    /\ session = "open"
    /\ mutex = NoThread
    /\ pc = [t \in Threads |-> "idle"]
    /\ name = [t \in Threads |-> Nil]
    /\ ts = [t \in Threads |-> Nil]
    /\ allCommittedTimestamp = [t \in Threads |-> Nil]
    /\ ret = [t \in Threads |-> NoResult]
    /\ calls = [t \in Threads |-> <<>>]
    /\ txn = [t \in Threads |-> NoTxn]
    /\ pinned = {}
    /\ engineOldest = 0
    /\ oldestPushed = None
    /\ closeCount = 0
    /\ lastAccepted = [name |-> None, ts |-> 0]
    /\ returnedSnapshot = None
    /\ fatal = "none"

\* ------------------------------------------------ setCommittedSnapshot
\* line 60: the call and the lock
SetCommittedSnapshot(t, n, s) ==
    /\ Running /\ pc[t] = "idle"
    /\ LockGuard(t)
    /\ pc' = [pc EXCEPT ![t] = "scs_invariant"]
    /\ name' = [name EXCEPT ![t] = n]
    /\ ts' = [ts EXCEPT ![t] = s]
    /\ UNCHANGED <<coord, allCommittedTimestamp, ret, calls, txn, engine, ghost, fatal>>

\* variant: no invariant on the new name
AcceptsNoCheck(n) == TRUE

\* variant: the comparison of the invariant turned round
AcceptsInverted(n) == committedSnapshot = None \/ committedSnapshot >= n

\* line 62: invariant(!_committedSnapshot || *_committedSnapshot <= name)
Accepts(n) == committedSnapshot = None \/ committedSnapshot <= n

\* lines 62-63: the invariant, then _committedSnapshot = name
SCS_WriteCommitted(t) ==
    /\ Running /\ pc[t] = "scs_invariant"
    /\ IF Accepts(name[t])
       THEN /\ committedSnapshot' = name[t]
            /\ lastAccepted' = [name |-> name[t], ts |-> ts[t]]
            /\ pc' = [pc EXCEPT ![t] = "scs_set_timestamp"]
            /\ UNCHANGED fatal
       ELSE /\ fatal' = "invariant"
            /\ UNCHANGED <<committedSnapshot, lastAccepted, pc>>
    /\ UNCHANGED <<oldestKeptTimestamp, session, mutex, locals, engine, returnedSnapshot>>

\* sizeof(oldestTSConfigString), line 65
OldestTSConfigSize == 34
\* "oldest_timestamp="_sd.size()
OldestKeyLen == 17

\* variant: the return code of set_timestamp is dropped, not handed to invariantWTOK
SCS_SetTimestampUnchecked(t) ==
    /\ Running /\ pc[t] = "scs_set_timestamp"
    /\ LET config == Config("oldest_timestamp", ts[t], 16)
       IN \E rc \in EngineRC :
            /\ calls' = [calls EXCEPT ![t] =
                            Append(@, Call("conn", "set_timestamp", config, rc))]
            /\ engineOldest' = IF rc = WT_OK THEN Parse(config.digits, 16)
                                             ELSE engineOldest
            /\ oldestPushed' = IF rc = WT_OK
                               THEN Max(oldestPushed, Parse(config.digits, 16))
                               ELSE oldestPushed
    /\ pc' = [pc EXCEPT ![t] = "scs_write_oldest"]
    /\ UNCHANGED <<coord, mutex, name, ts, allCommittedTimestamp, ret, txn, ghost,
                   pinned, closeCount, fatal>>

\* lines 65-70: format the configuration string and set the engine's oldest timestamp
SCS_SetTimestamp(t) ==
    /\ Running /\ pc[t] = "scs_set_timestamp"
    /\ LET config == Config("oldest_timestamp", ts[t], 16)
           size == Snprintf(OldestKeyLen, config.digits)
       IN IF ~(size < OldestTSConfigSize)
          THEN /\ fatal' = "invariant"
               /\ UNCHANGED <<pc, calls, engine>>
          ELSE /\ \E rc \in EngineRC :
                    /\ calls' = [calls EXCEPT ![t] =
                                    Append(@, Call("conn", "set_timestamp", config, rc))]
                    /\ IF rc = WT_OK
                       THEN /\ engineOldest' = Parse(config.digits, 16)
                            /\ oldestPushed' = Max(oldestPushed, Parse(config.digits, 16))
                            /\ pc' = [pc EXCEPT ![t] = "scs_write_oldest"]
                            /\ UNCHANGED fatal
                       ELSE /\ fatal' = "wt_error"
                            /\ UNCHANGED <<pc, engineOldest, oldestPushed>>
               /\ UNCHANGED <<pinned, closeCount>>
    /\ UNCHANGED <<coord, mutex, name, ts, allCommittedTimestamp, ret, txn, ghost>>

\* variant: the engine is told the new oldest timestamp, the field is not updated
SCS_WriteOldestSkipped(t) ==
    /\ Running /\ pc[t] = "scs_write_oldest"
    /\ pc' = [pc EXCEPT ![t] = "scs_return"]
    /\ UNCHANGED <<coord, mutex, locals, engine, ghost, fatal>>

\* line 71: _oldestKeptTimestamp = ts
SCS_WriteOldest(t) ==
    /\ Running /\ pc[t] = "scs_write_oldest"
    /\ oldestKeptTimestamp' = ts[t]
    /\ pc' = [pc EXCEPT ![t] = "scs_return"]
    /\ UNCHANGED <<committedSnapshot, session, mutex, locals, engine, ghost, fatal>>

\* --------------------------------------------- the manager's _session
\* _session->snapshot(_session, config) under invariantWTOK, lines 83 and 90.
\* With _session open the engine drops the snapshots and answers; an error
\* aborts.  With _session == nullptr the call dereferences a null pointer:
\* the process faults, or the call comes back with some answer and the
\* engine, which was never reached, keeps its snapshots.
SessionSnapshotDrop(t, config, kept, next) ==
    IF session = "open"
    THEN \E rc \in EngineRC :
           /\ calls' = [calls EXCEPT ![t] = Append(@, Call("session", "snapshot", config, rc))]
           /\ IF rc = WT_OK
              THEN /\ pinned' = kept
                   /\ pc' = [pc EXCEPT ![t] = next]
                   /\ UNCHANGED fatal
              ELSE /\ fatal' = "wt_error"
                   /\ UNCHANGED <<pinned, pc>>
    ELSE /\ UNCHANGED pinned
         /\ \/ /\ calls' = [calls EXCEPT ![t] =
                                Append(@, Call("nullptr", "snapshot", config, Nil))]
               /\ fatal' = "segv"
               /\ UNCHANGED pc
            \/ \E rc \in EngineRC :
                 /\ calls' = [calls EXCEPT ![t] =
                                 Append(@, Call("nullptr", "snapshot", config, rc))]
                 /\ IF rc = WT_OK
                    THEN /\ pc' = [pc EXCEPT ![t] = next]
                         /\ UNCHANGED fatal
                    ELSE /\ fatal' = "wt_error"
                         /\ UNCHANGED pc

\* -------------------------------------------- cleanupUnneededSnapshots
\* line 76: the call and the lock
CleanupUnneededSnapshots(t) ==
    /\ Running /\ pc[t] = "idle"
    /\ LockGuard(t)
    /\ pc' = [pc EXCEPT ![t] = "cus_check"]
    /\ UNCHANGED <<coord, locals, engine, ghost, fatal>>

\* variant: "before" read as "up to and including"
DropBeforeInclusive(n) == {p \in pinned : p > n}

\* the engine's "drop=(before=<name>)": snapshots older than <name> go
DropBefore(n) == {p \in pinned : p >= n}

\* variant: no early return, the drop is issued whatever _committedSnapshot holds
CUS_DropNoCheck(t) ==
    /\ Running /\ pc[t] = "cus_check"
    /\ LET config == Config("drop=(before", Max(committedSnapshot, 0), 10)
       IN SessionSnapshotDrop(t, config, DropBefore(Parse(config.digits, 10)),
                              "cus_return")
    /\ UNCHANGED <<coord, mutex, name, ts, allCommittedTimestamp, ret, txn,
                   engineOldest, oldestPushed, closeCount, ghost>>

\* lines 78-83
CUS_Drop(t) ==
    /\ Running /\ pc[t] = "cus_check"
    /\ IF committedSnapshot = None
       THEN /\ pc' = [pc EXCEPT ![t] = "cus_return"]
            /\ UNCHANGED <<calls, pinned, fatal>>
       ELSE LET config == Config("drop=(before", committedSnapshot, 10)
            IN SessionSnapshotDrop(t, config, DropBefore(Parse(config.digits, 10)),
                                   "cus_return")
    /\ UNCHANGED <<coord, mutex, name, ts, allCommittedTimestamp, ret, txn,
                   engineOldest, oldestPushed, closeCount, ghost>>

\* ---------------------------------------------------- dropAllSnapshots
\* line 87: the call and the lock
DropAllSnapshots(t) ==
    /\ Running /\ pc[t] = "idle"
    /\ LockGuard(t)
    /\ pc' = [pc EXCEPT ![t] = "das_clear"]
    /\ UNCHANGED <<coord, locals, engine, ghost, fatal>>

\* variant: the reset also zeroes _oldestKeptTimestamp
DAS_ClearBoth(t) ==
    /\ Running /\ pc[t] = "das_clear"
    /\ committedSnapshot' = None
    /\ oldestKeptTimestamp' = 0
    /\ returnedSnapshot' = None
    /\ pc' = [pc EXCEPT ![t] = "das_drop"]
    /\ UNCHANGED <<session, mutex, locals, engine, lastAccepted, fatal>>

\* line 88: _committedSnapshot = boost::none
DAS_Clear(t) ==
    /\ Running /\ pc[t] = "das_clear"
    /\ committedSnapshot' = None
    /\ returnedSnapshot' = None
    /\ pc' = [pc EXCEPT ![t] = "das_drop"]
    /\ UNCHANGED <<oldestKeptTimestamp, session, mutex, locals, engine, lastAccepted, fatal>>

\* line 90: _session->snapshot(_session, "drop=(all)")
DAS_Drop(t) ==
    /\ Running /\ pc[t] = "das_drop"
    /\ SessionSnapshotDrop(t, [key |-> "drop=(all)", digits |-> <<>>], {}, "das_return")
    /\ UNCHANGED <<coord, mutex, name, ts, allCommittedTimestamp, ret, txn,
                   engineOldest, oldestPushed, closeCount, ghost>>

\* ------------------------------------------------------------ shutdown
\* line 94: the call and the lock
Shutdown(t) ==
    /\ Running /\ pc[t] = "idle"
    /\ LockGuard(t)
    /\ pc' = [pc EXCEPT ![t] = "sd_check"]
    /\ UNCHANGED <<coord, locals, engine, ghost, fatal>>

\* variant: the session closed without the null check
SD_CloseUnchecked(t) ==
    /\ Running /\ pc[t] = "sd_check"
    /\ calls' = [calls EXCEPT ![t] =
                    Append(@, Call("session", "close", [key |-> "", digits |-> <<>>], WT_OK))]
    /\ closeCount' = closeCount + 1
    /\ session' = "null"
    /\ pc' = [pc EXCEPT ![t] = "sd_return"]
    /\ UNCHANGED <<committedSnapshot, oldestKeptTimestamp, mutex, name, ts,
                   allCommittedTimestamp, ret, txn, pinned, engineOldest,
                   oldestPushed, ghost, fatal>>

\* lines 95-98: nothing when _session is null, else close it and clear the handle
SD_Close(t) ==
    /\ Running /\ pc[t] = "sd_check"
    /\ IF session = "null"
       THEN /\ pc' = [pc EXCEPT ![t] = "sd_return"]
            /\ UNCHANGED <<session, calls, closeCount, fatal>>
       ELSE \E rc \in EngineRC :
                 /\ calls' = [calls EXCEPT ![t] =
                                 Append(@, Call("session", "close",
                                                [key |-> "", digits |-> <<>>], rc))]
                 /\ IF rc = WT_OK
                    THEN /\ closeCount' = closeCount + 1
                         /\ session' = "null"
                         /\ pc' = [pc EXCEPT ![t] = "sd_return"]
                         /\ UNCHANGED fatal
                    ELSE /\ fatal' = "wt_error"
                         /\ UNCHANGED <<session, closeCount, pc>>
    /\ UNCHANGED <<committedSnapshot, oldestKeptTimestamp, mutex, name, ts,
                   allCommittedTimestamp, ret, txn, pinned, engineOldest,
                   oldestPushed, ghost>>

\* ---------------------------------- getMinSnapshotForNextCommittedRead
\* line 103: the call and the lock
GetMinSnapshotForNextCommittedRead(t) ==
    /\ Running /\ pc[t] = "idle"
    /\ LockGuard(t)
    /\ pc' = [pc EXCEPT ![t] = "gm_read"]
    /\ UNCHANGED <<coord, locals, engine, ghost, fatal>>

\* line 104: return _committedSnapshot
GM_Read(t) ==
    /\ Running /\ pc[t] = "gm_read"
    /\ ret' = [ret EXCEPT ![t] = Result("optional", committedSnapshot)]
    /\ pc' = [pc EXCEPT ![t] = "gm_return"]
    /\ UNCHANGED <<coord, mutex, name, ts, allCommittedTimestamp, calls, txn,
                   engine, ghost, fatal>>

\* --------------------------------- beginTransactionOnCommittedSnapshot
\* line 109: the call and the lock
BeginTransactionOnCommittedSnapshot(t) ==
    /\ Running /\ pc[t] = "idle"
    /\ LockGuard(t)
    /\ pc' = [pc EXCEPT ![t] = "btcs_check"]
    /\ UNCHANGED <<coord, locals, engine, ghost, fatal>>

\* session->begin_transaction(session, config) under invariantWTOK, on the
\* caller's session: lines 117 and 138
BeginTransaction(t, kind, config, base, next) ==
    \E rc \in EngineRC :
         /\ calls' = [calls EXCEPT ![t] =
                         Append(@, Call("opCtx", "begin_transaction", config, rc))]
         /\ IF rc = WT_OK
            THEN /\ txn' = [txn EXCEPT ![t] = [kind |-> kind, at |-> Parse(config.digits, base)]]
                 /\ pc' = [pc EXCEPT ![t] = next]
                 /\ UNCHANGED fatal
            ELSE /\ fatal' = "wt_error"
                 /\ UNCHANGED <<txn, pc>>

\* variant: no uassert, the transaction is begun whatever _committedSnapshot holds
BTCS_BeginNoUassert(t) ==
    /\ Running /\ pc[t] = "btcs_check"
    /\ BeginTransaction(t, "snapshot", Config("snapshot", Max(committedSnapshot, 0), 10),
                        10, "btcs_return")
    /\ ret' = [ret EXCEPT ![t] = Result("SnapshotName", committedSnapshot)]
    /\ UNCHANGED <<coord, mutex, name, ts, allCommittedTimestamp, engine, ghost>>

\* lines 111-119: the uassert, the engine's begin_transaction, the return value
BTCS_Begin(t) ==
    /\ Running /\ pc[t] = "btcs_check"
    /\ IF committedSnapshot = None
       THEN /\ ret' = [ret EXCEPT ![t] = Result("throw", ReadConcernMajorityNotAvailableYet)]
            /\ pc' = [pc EXCEPT ![t] = "btcs_throw"]
            /\ UNCHANGED <<calls, txn, returnedSnapshot, fatal>>
       ELSE /\ BeginTransaction(t, "snapshot", Config("snapshot", committedSnapshot, 10),
                                10, "btcs_return")
            /\ IF fatal' = "none"
               THEN /\ ret' = [ret EXCEPT ![t] = Result("SnapshotName", committedSnapshot)]
                    /\ returnedSnapshot' = Max(returnedSnapshot, committedSnapshot)
               ELSE UNCHANGED <<ret, returnedSnapshot>>
    /\ UNCHANGED <<coord, mutex, name, ts, allCommittedTimestamp, engine, lastAccepted>>

\* --------------------------------------------- beginTransactionOnOplog
\* variant: the lock_guard is declared before the call to getOplogReadTimestamp
BeginTransactionOnOplogLocked(t) ==
    /\ Running /\ pc[t] = "idle"
    /\ LockGuard(t)
    /\ pc' = [pc EXCEPT ![t] = "bto_fetch"]
    /\ UNCHANGED <<coord, locals, engine, ghost, fatal>>

\* line 122: the call; the thread enters oplogManager->getOplogReadTimestamp()
\* with _mutex not taken
BeginTransactionOnOplog(t) ==
    /\ Running /\ pc[t] = "idle"
    /\ pc' = [pc EXCEPT ![t] = "bto_fetch"]
    /\ UNCHANGED <<coord, mutex, locals, engine, ghost, fatal>>

\* line 124: getOplogReadTimestamp() comes back, with whatever the oplog
\* manager holds
BTO_Fetch(t, v) ==
    /\ Running /\ pc[t] = "bto_fetch"
    /\ allCommittedTimestamp' = [allCommittedTimestamp EXCEPT ![t] = v]
    /\ pc' = [pc EXCEPT ![t] = "bto_lock"]
    /\ UNCHANGED <<coord, mutex, name, ts, ret, calls, txn, engine, ghost, fatal>>

\* line 125: the lock
BTO_Lock(t) ==
    /\ Running /\ pc[t] = "bto_lock"
    /\ LockGuard(t)
    /\ pc' = [pc EXCEPT ![t] = "bto_begin"]
    /\ UNCHANGED <<coord, locals, engine, ghost, fatal>>

\* variant: the all-committed timestamp alone
ReadTimestampNoFloor(allCommitted, oldestKept) == allCommitted

\* variant: std::min in place of std::max
ReadTimestampMin(allCommitted, oldestKept) ==
    IF allCommitted <= oldestKept THEN allCommitted ELSE oldestKept

\* lines 130-131: std::max<std::uint64_t>(allCommittedTimestamp, _oldestKeptTimestamp.asULL())
ReadTimestamp(allCommitted, oldestKept) == Max(allCommitted, oldestKept)

\* sizeof(readTSConfigString), line 133
ReadTSConfigSize == 32
\* the length of "read_timestamp="
ReadKeyLen == 15

\* lines 130-138
BTO_Begin(t) ==
    /\ Running /\ pc[t] = "bto_begin"
    /\ LET readTimestamp == ReadTimestamp(allCommittedTimestamp[t], oldestKeptTimestamp)
           config == Config("read_timestamp", readTimestamp, 16)
           size == Snprintf(ReadKeyLen, config.digits)
       IN IF ~(size < ReadTSConfigSize)
          THEN /\ fatal' = "invariant"
               /\ UNCHANGED <<pc, calls, txn>>
          ELSE BeginTransaction(t, "read_timestamp", config, 16, "bto_return")
    /\ UNCHANGED <<coord, mutex, name, ts, allCommittedTimestamp, ret, engine, ghost>>

\* ------------------------------ prepareForCreateSnapshot, createSnapshot
\* lines 48-49: the recovery unit prepares itself; Status::OK()
PrepareForCreateSnapshot(t) ==
    /\ Running /\ pc[t] = "idle"
    /\ ret' = [ret EXCEPT ![t] = Result("Status", 0)]
    /\ pc' = [pc EXCEPT ![t] = "pfcs_return"]
    /\ UNCHANGED <<coord, mutex, name, ts, allCommittedTimestamp, calls, txn, engine,
                   ghost, fatal>>

\* variant: the engine's return code is swallowed, Status::OK() whatever it was
WtRCToStatusAlwaysOK(rc) == Result("Status", WT_OK)

\* wtRCToStatus: Status::OK() for 0, else a Status carrying the engine's error
WtRCToStatus(rc) == Result("Status", rc)

\* lines 54-56: session->snapshot(session, "name=<name>") on the caller's session
CreateSnapshot(t, n) ==
    /\ Running /\ pc[t] = "idle"
    /\ name' = [name EXCEPT ![t] = n]
    /\ LET config == Config("name", n, 10)
       IN \E rc \in EngineRC :
               /\ calls' = [calls EXCEPT ![t] =
                               Append(@, Call("opCtx", "snapshot", config, rc))]
               /\ pinned' = IF rc = WT_OK THEN pinned \cup {Parse(config.digits, 10)}
                                         ELSE pinned
               /\ ret' = [ret EXCEPT ![t] = WtRCToStatus(rc)]
    /\ pc' = [pc EXCEPT ![t] = "cs_return"]
    /\ UNCHANGED <<coord, mutex, ts, allCommittedTimestamp, txn, engineOldest,
                   oldestPushed, closeCount, ghost, fatal>>

\* ------------------------------------------------------------- return
ReturnPcs == {"scs_return", "cus_return", "das_return", "sd_return", "gm_return",
              "btcs_return", "btcs_throw", "bto_return", "pfcs_return", "cs_return"}

\* variant: a manual unlock that the exit by exception skips
ReturnLeaksOnThrow(t) ==
    /\ Running /\ pc[t] \in ReturnPcs
    /\ mutex' = IF mutex = t /\ pc[t] # "btcs_throw" THEN NoThread ELSE mutex
    /\ pc' = [pc EXCEPT ![t] = "idle"]
    /\ name' = [name EXCEPT ![t] = Nil]
    /\ ts' = [ts EXCEPT ![t] = Nil]
    /\ allCommittedTimestamp' = [allCommittedTimestamp EXCEPT ![t] = Nil]
    /\ ret' = [ret EXCEPT ![t] = NoResult]
    /\ calls' = [calls EXCEPT ![t] = <<>>]
    /\ txn' = [txn EXCEPT ![t] = NoTxn]
    /\ UNCHANGED <<coord, engine, ghost, fatal>>

\* the end of a method: the lock_guard, if any, releases _mutex and the
\* frame of the call is gone
Return(t) ==
    /\ Running /\ pc[t] \in ReturnPcs
    /\ mutex' = IF mutex = t THEN NoThread ELSE mutex
    /\ pc' = [pc EXCEPT ![t] = "idle"]
    /\ name' = [name EXCEPT ![t] = Nil]
    /\ ts' = [ts EXCEPT ![t] = Nil]
    /\ allCommittedTimestamp' = [allCommittedTimestamp EXCEPT ![t] = Nil]
    /\ ret' = [ret EXCEPT ![t] = NoResult]
    /\ calls' = [calls EXCEPT ![t] = <<>>]
    /\ txn' = [txn EXCEPT ![t] = NoTxn]
    /\ UNCHANGED <<coord, engine, ghost, fatal>>

Next ==
    \/ \E t \in Threads, n \in Names, s \in Timestamps : SetCommittedSnapshot(t, n, s)
    \/ \E t \in Threads : SCS_WriteCommitted(t)
    \/ \E t \in Threads : SCS_SetTimestamp(t)
    \/ \E t \in Threads : SCS_WriteOldest(t)
    \/ \E t \in Threads : CleanupUnneededSnapshots(t)
    \/ \E t \in Threads : CUS_Drop(t)
    \/ \E t \in Threads : DropAllSnapshots(t)
    \/ \E t \in Threads : DAS_Clear(t)
    \/ \E t \in Threads : DAS_Drop(t)
    \/ \E t \in Threads : Shutdown(t)
    \/ \E t \in Threads : SD_Close(t)
    \/ \E t \in Threads : GetMinSnapshotForNextCommittedRead(t)
    \/ \E t \in Threads : GM_Read(t)
    \/ \E t \in Threads : BeginTransactionOnCommittedSnapshot(t)
    \/ \E t \in Threads : BTCS_Begin(t)
    \/ \E t \in Threads : BeginTransactionOnOplog(t)
    \/ \E t \in Threads, v \in Timestamps : BTO_Fetch(t, v)
    \/ \E t \in Threads : BTO_Lock(t)
    \/ \E t \in Threads : BTO_Begin(t)
    \/ \E t \in Threads : PrepareForCreateSnapshot(t)
    \/ \E t \in Threads, n \in Names : CreateSnapshot(t, n)
    \/ \E t \in Threads : Return(t)

Spec == Init /\ [][Next]_vars

\* ------------------------------------------------------------- claims
\* positions inside the critical section of setCommittedSnapshot
AdvancePcs == {"scs_invariant", "scs_set_timestamp", "scs_write_oldest", "scs_return"}
\* positions inside the critical sections of the three readers
ReaderPcs == {"gm_read", "gm_return", "btcs_check", "btcs_return", "btcs_throw",
              "bto_begin", "bto_return"}

\* C1: without a dropAllSnapshots step the committed snapshot never decreases;
\* setCommittedSnapshot(id, ts) is accepted exactly when the committed snapshot
\* is empty or <= id, and a call with a smaller id aborts with the committed
\* snapshot, the oldest kept timestamp and the engine untouched and no
\* set_timestamp call issued.
C1_Monotonic ==
    [][ /\ (committedSnapshot # None /\ ~(\E t \in Threads : DAS_Clear(t)))
            => (committedSnapshot' # None /\ committedSnapshot' >= committedSnapshot)
        /\ \A t \in Threads :
             SCS_WriteCommitted(t) =>
                IF committedSnapshot = None \/ committedSnapshot <= name[t]
                THEN committedSnapshot' = name[t] /\ fatal' = "none"
                ELSE /\ fatal' = "invariant"
                     /\ calls'[t] = <<>>
                     /\ UNCHANGED <<committedSnapshot, oldestKeptTimestamp, engine>>
      ]_vars

\* a call with id < current has taken the fatal path
C1_Witness ==
    \E t \in Threads :
        /\ fatal = "invariant"
        /\ pc[t] = "scs_invariant"
        /\ name[t] < committedSnapshot
        /\ calls[t] = <<>>

\* C2 as stated: the read timestamp of beginTransactionOnOplog is at least
\* every oldest_timestamp an earlier setCommittedSnapshot set in the engine.
C2_AboveEveryPushed ==
    \A t \in Threads :
        pc[t] = "bto_return" => txn[t].at >= oldestPushed

\* C2 as amended: the read timestamp of beginTransactionOnOplog is at least the
\* oldest_timestamp most recently set in the engine by setCommittedSnapshot.
C2_AboveLastPushed ==
    \A t \in Threads :
        pc[t] = "bto_return" =>
            /\ txn[t].kind = "read_timestamp"
            /\ txn[t].at >= engineOldest

\* the retention floor, not the all-committed timestamp, decided the read timestamp
C2_Witness ==
    \E t \in Threads :
        /\ pc[t] = "bto_return"
        /\ oldestPushed # None
        /\ allCommittedTimestamp[t] < engineOldest
        /\ txn[t].at = engineOldest

C4_AtomicPairing ==
    \A t \in Threads :
        pc[t] \in ReaderPcs =>
            /\ \A u \in Threads \ {t} : pc[u] \notin AdvancePcs
            /\ oldestKeptTimestamp = lastAccepted.ts
            /\ committedSnapshot \in {None, lastAccepted.name}
            /\ pc[t] = "gm_return" => ret[t] = Result("optional", committedSnapshot)
            /\ pc[t] = "btcs_return" => ret[t] = Result("SnapshotName", lastAccepted.name)
            /\ pc[t] = "bto_return" =>
                   txn[t].at \in {allCommittedTimestamp[t], lastAccepted.ts}

\* a reader returns the id of a completed advance while the other thread waits
\* between its fetch and the lock
C4_Witness ==
    \E t \in Threads :
        /\ pc[t] = "gm_return"
        /\ ret[t].val # None
        /\ ret[t].val = lastAccepted.name
        /\ oldestKeptTimestamp > 0
        /\ \E u \in Threads \ {t} : pc[u] = "bto_lock"

\* C5: with the committed snapshot empty, beginTransactionOnCommittedSnapshot
\* throws ReadConcernMajorityNotAvailableYet: no begin_transaction reaches the
\* engine, the committed snapshot and the oldest kept timestamp keep their
\* values, the process does not abort, and the lock is released on the way out.
C5_NotAvailableYet ==
    /\ [](\A t \in Threads :
            pc[t] = "btcs_throw" =>
                /\ committedSnapshot = None
                /\ ret[t] = Result("throw", ReadConcernMajorityNotAvailableYet)
                /\ calls[t] = <<>>
                /\ txn[t] = NoTxn
                /\ fatal = "none")
    /\ [][\A t \in Threads :
            /\ (BTCS_Begin(t) /\ committedSnapshot = None) =>
                   /\ pc'[t] = "btcs_throw"
                   /\ fatal' = "none"
                   /\ UNCHANGED <<committedSnapshot, oldestKeptTimestamp, session, engine>>
            /\ (BTCS_Begin(t) /\ committedSnapshot # None /\ fatal' = "none") =>
                   pc'[t] = "btcs_return"
            /\ (Return(t) /\ pc[t] = "btcs_throw") =>
                   /\ mutex' = NoThread
                   /\ pc'[t] = "idle"
       ]_vars

\* the error is raised after dropAllSnapshots emptied an established snapshot
C5_Witness ==
    \E t \in Threads :
        /\ pc[t] = "btcs_throw"
        /\ lastAccepted.name # None
        /\ ret[t].kind = "throw"

\* C6: the manager's session is closed at most once, and once after any
\* completed shutdown; a shutdown that finds the handle cleared issues no
\* engine call, does not abort and changes nothing.
C6_ShutdownOnce ==
    /\ [](/\ closeCount <= 1
          /\ (closeCount = 1) <=> (session = "null")
          /\ \A t \in Threads :
                pc[t] = "sd_return" =>
                    /\ closeCount = 1
                    /\ session = "null"
                    /\ fatal = "none"
                    /\ calls[t] \in {<<>>, << Call("session", "close",
                                                   [key |-> "", digits |-> <<>>], WT_OK) >>})
    /\ [][\A t \in Threads :
            (SD_Close(t) /\ session = "null") =>
                /\ pc'[t] = "sd_return"
                /\ calls'[t] = <<>>
                /\ UNCHANGED <<coord, engine, ghost, fatal, mutex>>
       ]_vars

\* a second shutdown returns without having issued an engine call
C6_Witness ==
    \E t \in Threads :
        /\ pc[t] = "sd_return"
        /\ calls[t] = <<>>
        /\ closeCount = 1

\* C7: no operation issues a call through the manager's session handle once
\* shutdown has closed it and cleared it.
C7_NoUseAfterClose ==
    \A t \in Threads :
        \A i \in DOMAIN calls[t] : calls[t][i].handle # "nullptr"

\* C8: dropAllSnapshots, called in any state, returns with the committed
\* snapshot empty (so getMinSnapshotForNextCommittedRead returns empty) and
\* with the engine told, through the manager's session, to drop every named
\* snapshot; the setCommittedSnapshot that follows is accepted whatever its id.
C8_DropAllResets ==
    [][\A t \in Threads :
          /\ (DAS_Drop(t) /\ fatal' = "none") =>
                 /\ committedSnapshot' = None
                 /\ pinned' = {}
                 /\ calls'[t] = << Call("session", "snapshot",
                                        [key |-> "drop=(all)", digits |-> <<>>], WT_OK) >>
          /\ (GM_Read(t) /\ committedSnapshot = None) =>
                 ret'[t] = Result("optional", None)
          /\ (SCS_WriteCommitted(t) /\ committedSnapshot = None) =>
                 (committedSnapshot' = name[t] /\ fatal' = "none")
      ]_vars

\* C9: whenever the lock is free, the oldest kept timestamp is the ts of the
\* last accepted setCommittedSnapshot (zero before the first) and the value
\* last set in the engine, also after dropAllSnapshots emptied the committed
\* snapshot.
C9_OldestKeptInLockstep ==
    mutex = NoThread =>
        /\ oldestKeptTimestamp = lastAccepted.ts
        /\ oldestKeptTimestamp = engineOldest

\* the lock is free after an advance and a dropAllSnapshots
C9_Witness ==
    /\ mutex = NoThread
    /\ committedSnapshot = None
    /\ lastAccepted.name # None
    /\ oldestKeptTimestamp > 0

\* C10: beginTransactionOnCommittedSnapshot returns the id it handed to
\* begin_transaction, the committed snapshot under the lock; as long as no
\* dropAllSnapshots runs, the committed snapshot, and so every value
\* getMinSnapshotForNextCommittedRead returns, is at least that id.
C10_ReturnedIdStaysBelow ==
    /\ \A t \in Threads :
          pc[t] = "btcs_return" =>
              /\ ret[t] = Result("SnapshotName", committedSnapshot)
              /\ txn[t] = [kind |-> "snapshot", at |-> ret[t].val]
              /\ calls[t] = << Call("opCtx", "begin_transaction",
                                    [key |-> "snapshot", digits |-> Digits(ret[t].val, 10)],
                                    WT_OK) >>
    /\ returnedSnapshot # None =>
          /\ committedSnapshot # None
          /\ committedSnapshot >= returnedSnapshot
    /\ \A t \in Threads :
          (pc[t] = "gm_return" /\ returnedSnapshot # None) =>
              (ret[t].val # None /\ ret[t].val >= returnedSnapshot)

\* getMinSnapshotForNextCommittedRead returns more than the id a transaction
\* was begun on: the transaction is stale
C10_Witness ==
    \E t \in Threads :
        /\ pc[t] = "gm_return"
        /\ returnedSnapshot # None
        /\ ret[t].val > returnedSnapshot

\* C11: cleanupUnneededSnapshots called while the committed snapshot is empty
\* (before the first setCommittedSnapshot or after dropAllSnapshots) is a
\* no-op: its critical section issues no engine call and leaves the manager's
\* fields and the engine as they are, and it returns normally.
C11_CleanupNoOp ==
    /\ [](\A t \in Threads :
            (pc[t] \in {"cus_check", "cus_return"} /\ committedSnapshot = None)
                => (calls[t] = <<>> /\ mutex = t))
    /\ [][\A t \in Threads :
            /\ CleanupUnneededSnapshots(t) => UNCHANGED <<coord, engine, calls, fatal>>
            /\ (CUS_Drop(t) /\ committedSnapshot = None) =>
                   /\ pc'[t] = "cus_return"
                   /\ calls'[t] = <<>>
                   /\ UNCHANGED <<coord, engine, ghost, fatal>>
            /\ (Return(t) /\ pc[t] = "cus_return") =>
                   UNCHANGED <<coord, engine, ghost, fatal>>
        ]_vars

\* a cleanup after dropAllSnapshots emptied the committed snapshot returns
\* with no engine call issued and the pinned snapshots still pinned
C11_Witness ==
    \E t \in Threads :
        /\ pc[t] = "cus_return"
        /\ committedSnapshot = None
        /\ lastAccepted.name # None
        /\ pinned # {}
        /\ calls[t] = <<>>

\* C12: with a committed snapshot c established, cleanupUnneededSnapshots asks
\* the engine, through the manager's session, to drop the snapshots before c,
\* and on its return exactly the pinned snapshots with id < c are gone: c and
\* every larger id stay pinned; a cleanup that finds nothing below c (a second
\* call with no setCommittedSnapshot or createSnapshot in between) leaves the
\* pinned snapshots as they are.
C12_CleanupDropsBelowCommitted ==
    [][\A t \in Threads :
          (CUS_Drop(t) /\ committedSnapshot # None /\ fatal' = "none") =>
              /\ calls'[t] = << Call("session", "snapshot",
                                     [key |-> "drop=(before",
                                      digits |-> Digits(committedSnapshot, 10)], WT_OK) >>
              /\ pinned' = {p \in pinned : p >= committedSnapshot}
              /\ (\A p \in pinned : p >= committedSnapshot) => pinned' = pinned
              /\ {p \in pinned' : p >= committedSnapshot} = pinned'
      ]_vars

\* the step a thread inside a call takes next
Continue(t) ==
    \/ SCS_WriteCommitted(t) \/ SCS_SetTimestamp(t) \/ SCS_WriteOldest(t)
    \/ CUS_Drop(t)
    \/ DAS_Clear(t) \/ DAS_Drop(t)
    \/ SD_Close(t)
    \/ GM_Read(t)
    \/ BTCS_Begin(t)
    \/ (\E v \in Timestamps : BTO_Fetch(t, v)) \/ BTO_Lock(t) \/ BTO_Begin(t)
    \/ Return(t)

\* C13: a thread inside getOplogReadTimestamp does not hold _mutex, so it
\* blocks nobody: while it is suspended there, another thread that is idle can
\* enter setCommittedSnapshot, getMinSnapshotForNextCommittedRead,
\* beginTransactionOnCommittedSnapshot, cleanupUnneededSnapshots and shutdown
\* (each acquires the lock at once), and another thread inside a call can take
\* its next step, up to its return, without the suspended thread moving.
C13_FetchOutsideLock ==
    \A t \in Threads :
        (Running /\ pc[t] = "bto_fetch") =>
            /\ mutex # t
            /\ \A u \in Threads \ {t} :
                  IF pc[u] = "idle"
                  THEN /\ ENABLED (\E n \in Names, s \in Timestamps :
                                      SetCommittedSnapshot(u, n, s))
                       /\ ENABLED GetMinSnapshotForNextCommittedRead(u)
                       /\ ENABLED BeginTransactionOnCommittedSnapshot(u)
                       /\ ENABLED CleanupUnneededSnapshots(u)
                       /\ ENABLED Shutdown(u)
                  ELSE ENABLED Continue(u)

\* one thread is suspended in getOplogReadTimestamp while another is inside
\* the critical section of setCommittedSnapshot
C13_Witness ==
    \E t \in Threads, u \in Threads :
        /\ pc[t] = "bto_fetch"
        /\ pc[u] = "scs_write_oldest"
        /\ mutex = u

\* the calls that run under invariantWTOK: every engine call but the
\* caller-session snapshot of createSnapshot, whose code is handed back
Administrative(call) == ~(call.handle = "opCtx" /\ call.fn = "snapshot")

\* C14: a failure the engine reports on an administrative call (the snapshot
\* drop of cleanupUnneededSnapshots or dropAllSnapshots, set_timestamp, the
\* close of the session, begin_transaction of either begin operation) is
\* neither returned nor ignored: with the failing call the process is in the
\* fatal state, the operation has not reached its return, and no step of any
\* operation of the manager follows.
C14_AdminFailureIsFatal ==
    /\ [](\A t \in Threads : \A i \in DOMAIN calls[t] :
            (Administrative(calls[t][i]) /\ calls[t][i].rc \in EngineRC \ {WT_OK})
                => /\ fatal = "wt_error"
                   /\ i = Len(calls[t])
                   /\ pc[t] \notin ReturnPcs
                   /\ ret[t] = NoResult)
    /\ [][fatal = "none"]_vars

\* set_timestamp failed: the process is down inside setCommittedSnapshot
\* while another thread was about to take the lock
C14_Witness ==
    \E t \in Threads, u \in Threads :
        /\ fatal = "wt_error"
        /\ pc[t] = "scs_set_timestamp"
        /\ calls[t] # <<>>
        /\ calls[t][Len(calls[t])].fn = "set_timestamp"
        /\ calls[t][Len(calls[t])].rc = WT_ERROR
        /\ pc[u] = "bto_lock"

\* C15: createSnapshot(id) issues exactly one call to the engine, the pin of
\* snapshot id on the caller's session, and returns the engine's return code as
\* it came, success or failure, with no retry and without aborting; it leaves
\* the committed snapshot, the oldest kept timestamp and the manager's session
\* handle as they were.
C15_CreateSnapshotPassesThrough ==
    /\ [](\A t \in Threads :
            pc[t] = "cs_return" =>
                /\ Len(calls[t]) = 1
                /\ calls[t][1].rc \in EngineRC
                /\ calls[t][1] = Call("opCtx", "snapshot",
                                      [key |-> "name", digits |-> Digits(name[t], 10)],
                                      calls[t][1].rc)
                /\ ret[t] = Result("Status", calls[t][1].rc))
    /\ [][\A t \in Threads :
            /\ (\E n \in Names : CreateSnapshot(t, n)) =>
                   /\ fatal' = "none"
                   /\ pc'[t] = "cs_return"
                   /\ UNCHANGED <<coord, mutex, engineOldest>>
            /\ (Return(t) /\ pc[t] = "cs_return") =>
                   UNCHANGED <<coord, mutex, engine, fatal>>
        ]_vars

\* the engine refused the pin: createSnapshot is about to return the error,
\* the process runs on and the snapshot is not pinned
C15_Witness ==
    \E t \in Threads :
        /\ pc[t] = "cs_return"
        /\ ret[t] = Result("Status", WT_ERROR)
        /\ name[t] \notin pinned
        /\ committedSnapshot # None
        /\ fatal = "none"

\* the steps of the operations that only read the coordinated values
ReadOnlyStep(t) ==
    \/ GetMinSnapshotForNextCommittedRead(t) \/ GM_Read(t)
    \/ BeginTransactionOnCommittedSnapshot(t) \/ BTCS_Begin(t)
    \/ BeginTransactionOnOplog(t) \/ (\E v \in Timestamps : BTO_Fetch(t, v))
    \/ BTO_Lock(t) \/ BTO_Begin(t)
    \/ CleanupUnneededSnapshots(t) \/ CUS_Drop(t)
    \/ PrepareForCreateSnapshot(t)
    \/ Shutdown(t) \/ SD_Close(t)
    \/ (Return(t) /\ pc[t] \in ReturnPcs \ {"scs_return", "das_return", "cs_return"})

\* the steps of dropAllSnapshots
DropAllStep(t) ==
    DropAllSnapshots(t) \/ DAS_Clear(t) \/ DAS_Drop(t) \/ (Return(t) /\ pc[t] = "das_return")

\* C16: only setCommittedSnapshot and dropAllSnapshots change the coordinated
\* values: no step of getMinSnapshotForNextCommittedRead,
\* beginTransactionOnCommittedSnapshot, beginTransactionOnOplog,
\* cleanupUnneededSnapshots, prepareForCreateSnapshot or shutdown changes the
\* committed snapshot or the oldest kept timestamp, no step of dropAllSnapshots
\* changes the oldest kept timestamp, and getMinSnapshotForNextCommittedRead
\* returns the committed snapshot as it is (None when empty).
C16_OnlyAdvanceAndResetWrite ==
    /\ [](\A t \in Threads :
            pc[t] = "gm_return" => ret[t] = Result("optional", committedSnapshot))
    /\ [][/\ \A t \in Threads :
              /\ ReadOnlyStep(t) => UNCHANGED <<committedSnapshot, oldestKeptTimestamp>>
              /\ DropAllStep(t) => UNCHANGED oldestKeptTimestamp
              /\ GM_Read(t) => ret'[t] = Result("optional", committedSnapshot)
          /\ committedSnapshot' # committedSnapshot =>
                \E t \in Threads : SCS_WriteCommitted(t) \/ DAS_Clear(t)
          /\ oldestKeptTimestamp' # oldestKeptTimestamp =>
                \E t \in Threads : SCS_WriteOldest(t)
        ]_vars

\* dropAllSnapshots is about to return: the committed snapshot is empty, the
\* oldest kept timestamp is still the one the last advance set
C16_Witness ==
    \E t \in Threads :
        /\ pc[t] = "das_return"
        /\ committedSnapshot = None
        /\ oldestKeptTimestamp > 0
        /\ oldestKeptTimestamp = lastAccepted.ts

\* C17: the read timestamp beginTransactionOnOplog begins its transaction at
\* lies between the two bounds the comment at line 127 names: it is >= the
\* oldest kept timestamp and <= the all-committed timestamp the call obtained,
\* whatever the two values are.
C17_ReadTimestampBetween ==
    \A t \in Threads :
        pc[t] = "bto_return" =>
            /\ txn[t].kind = "read_timestamp"
            /\ txn[t].at >= oldestKeptTimestamp
            /\ txn[t].at <= allCommittedTimestamp[t]

\* ------------------------------------ callers that commit pinned snapshots
\* setCommittedSnapshot called, as replication calls it, with the name of a
\* snapshot that createSnapshot pinned and nothing has dropped: the snapshot is
\* pinned when the call takes _mutex
SetCommittedSnapshotPinned(t, n, s) ==
    /\ n \in pinned
    /\ SetCommittedSnapshot(t, n, s)

NextPinned ==
    \/ \E t \in Threads, n \in Names, s \in Timestamps : SetCommittedSnapshotPinned(t, n, s)
    \/ \E t \in Threads : CleanupUnneededSnapshots(t)
    \/ \E t \in Threads : DropAllSnapshots(t)
    \/ \E t \in Threads : Shutdown(t)
    \/ \E t \in Threads : GetMinSnapshotForNextCommittedRead(t)
    \/ \E t \in Threads : BeginTransactionOnCommittedSnapshot(t)
    \/ \E t \in Threads : BeginTransactionOnOplog(t)
    \/ \E t \in Threads : PrepareForCreateSnapshot(t)
    \/ \E t \in Threads, n \in Names : CreateSnapshot(t, n)
    \/ \E t \in Threads : Continue(t)

SpecPinned == Init /\ [][NextPinned]_vars

FairSpec ==
    /\ Spec
    /\ \A t \in Threads : WF_vars(Continue(t)) /\ SF_vars(BTO_Lock(t))

RECURSIVE Pow16(_)
Pow16(k) == IF k = 0 THEN 1 ELSE 16 * Pow16(k - 1)

\* the limb that holds hex digit number len, counted from the least significant
LimbOf(len) == U64Limbs - ((len - 1) \div 4)

\* the smallest 64-bit value whose hex rendering has len digits
LowestOfLength(len) ==
    [i \in 1..U64Limbs |-> IF i = LimbOf(len) THEN Pow16((len - 1) % 4) ELSE 0]

\* the largest 64-bit value whose hex rendering has len digits
HighestOfLength(len) ==
    [i \in 1..U64Limbs |->
        IF i < LimbOf(len) THEN 0
        ELSE IF i = LimbOf(len) THEN Pow16(((len - 1) % 4) + 1) - 1
        ELSE LimbBase - 1]

\* zero, and for every length of the hex rendering the two ends of its range
U64Samples ==
    {[i \in 1..U64Limbs |-> 0]}
        \cup {LowestOfLength(len) : len \in 1..MaxHexDigits}
        \cup {HighestOfLength(len) : len \in 1..MaxHexDigits}

\* one caller, thread 1, holding the ts it will hand to setCommittedSnapshot
\* and the timestamp getOplogReadTimestamp will give it
InitFormat ==
    /\ committedSnapshot = None
    /\ oldestKeptTimestamp = [i \in 1..U64Limbs |-> 0]
    /\ session = "open"
    /\ mutex = NoThread
    /\ pc = [t \in Threads |-> "idle"]
    /\ name = [t \in Threads |-> Nil]
    /\ ts \in [Threads -> U64Samples]
    /\ \A t \in Threads \ {1} : ts[t] = ts[1]
    /\ allCommittedTimestamp \in [Threads -> U64Samples]
    /\ \A t \in Threads \ {1} : allCommittedTimestamp[t] = allCommittedTimestamp[1]
    /\ ret = [t \in Threads |-> NoResult]
    /\ calls = [t \in Threads |-> <<>>]
    /\ txn = [t \in Threads |-> NoTxn]
    /\ pinned = {}
    /\ engineOldest = 0
    /\ oldestPushed = None
    /\ closeCount = 0
    /\ lastAccepted = [name |-> None, ts |-> 0]
    /\ returnedSnapshot = None
    /\ fatal = "none"

\* lines 65-71: snprintf of "oldest_timestamp=%llx" into the 34-byte buffer,
\* the assertion on its length, the call, _oldestKeptTimestamp = ts
FormatOldestTimestamp(t) ==
    /\ Running /\ pc[t] = "idle" /\ t = 1
    /\ LET digits == HexU64(ts[t])
           size == Snprintf(OldestKeyLen, digits)
       IN /\ ret' = [ret EXCEPT ![t] = Result("size", size)]
          /\ IF ~(size < OldestTSConfigSize)
             THEN /\ fatal' = "invariant"
                  /\ UNCHANGED <<calls, oldestKeptTimestamp, pc>>
             ELSE /\ calls' = [calls EXCEPT ![t] =
                                  Append(@, Call("conn", "set_timestamp",
                                                 [key |-> "oldest_timestamp",
                                                  digits |-> digits], WT_OK))]
                  /\ oldestKeptTimestamp' = ts[t]
                  /\ pc' = [pc EXCEPT ![t] = "oldest_formatted"]
                  /\ UNCHANGED fatal
    /\ UNCHANGED <<committedSnapshot, session, mutex, name, ts, allCommittedTimestamp,
                   txn, engine, ghost>>

\* lines 130-138: std::max of the two timestamps, snprintf of
\* "read_timestamp=%llx" into the 32-byte buffer, the assertion on its length,
\* the call
FormatReadTimestamp(t) ==
    /\ Running /\ pc[t] \in {"idle", "oldest_formatted"} /\ t = 1
    /\ LET readTimestamp == MaxU64(allCommittedTimestamp[t], oldestKeptTimestamp)
           digits == HexU64(readTimestamp)
           size == Snprintf(ReadKeyLen, digits)
       IN /\ ret' = [ret EXCEPT ![t] = Result("size", size)]
          /\ IF ~(size < ReadTSConfigSize)
             THEN /\ fatal' = "invariant"
                  /\ UNCHANGED <<calls, pc>>
             ELSE /\ calls' = [calls EXCEPT ![t] =
                                  Append(@, Call("opCtx", "begin_transaction",
                                                 [key |-> "read_timestamp",
                                                  digits |-> digits], WT_OK))]
                  /\ pc' = [pc EXCEPT ![t] = "read_formatted"]
                  /\ UNCHANGED fatal
    /\ UNCHANGED <<coord, mutex, name, ts, allCommittedTimestamp, txn, engine, ghost>>

NextFormat ==
    \/ \E t \in Threads : FormatOldestTimestamp(t)
    \/ \E t \in Threads : FormatReadTimestamp(t)

SpecFormat == InitFormat /\ [][NextFormat]_vars

\* C20: the two assertions on the length of the configuration strings never
\* fire: for every 64-bit ts, "oldest_timestamp=" followed by its hex digits
\* (16 at most) is strictly shorter than the 34-byte buffer, and
\* "read_timestamp=" followed by the hex digits of the read timestamp chosen is
\* strictly shorter than the 32-byte buffer.
C20_BuffersLargeEnough ==
    /\ fatal = "none"
    /\ \A t \in Threads : \A i \in DOMAIN calls[t] :
          LET digits == calls[t][i].config.digits
          IN /\ Len(digits) \in 1..MaxHexDigits
             /\ Len(digits) = 1 \/ digits[1] # 0
             /\ calls[t][i].fn = "set_timestamp" =>
                    OldestKeyLen + Len(digits) < OldestTSConfigSize
             /\ calls[t][i].fn = "begin_transaction" =>
                    ReadKeyLen + Len(digits) < ReadTSConfigSize
    /\ \A t \in Threads :
          /\ pc[t] = "oldest_formatted" => ret[t].val < OldestTSConfigSize
          /\ pc[t] = "read_formatted" => ret[t].val < ReadTSConfigSize

\* the largest 64-bit value went through both strings: sixteen digits each,
\* one byte short of either buffer
C20_Witness ==
    \E t \in Threads :
        /\ pc[t] = "read_formatted"
        /\ Len(calls[t]) = 2
        /\ calls[t][1].fn = "set_timestamp"
        /\ Len(calls[t][1].config.digits) = MaxHexDigits
        /\ OldestKeyLen + MaxHexDigits + 1 = OldestTSConfigSize
        /\ calls[t][2].fn = "begin_transaction"
        /\ calls[t][2].config.digits = [i \in 1..MaxHexDigits |-> 15]
        /\ ret[t] = Result("size", ReadTSConfigSize - 1)
        /\ fatal = "none"
====
